---- MODULE Spec2Model ----
(***************************************************************************)
(* Model of dags/dag.py: the Google Books ETL pipeline.                    *)
(*                                                                         *)
(*   get_google_books_data           the paginating fetcher (extract)      *)
(*   create_books_table              CREATE TABLE IF NOT EXISTS            *)
(*   insert_book_data_into_postgres  the transactional insert (load)       *)
(*   fetch >> create_table >> insert the task wiring, one retry per task   *)
(*                                                                         *)
(* Python strings that the code trims (titles) are sequences of            *)
(* one-character strings; dicts are functions whose DOMAIN is the set of   *)
(* keys that are present.                                                  *)
(*                                                                         *)
(* Three specifications share the actions:                                 *)
(*   SpecFetch   one call of get_google_books_data against any API         *)
(*   SpecLoader  calls of the two loader operations on any database        *)
(*   Spec        one run of the DAG: scheduler, fetch, create, insert      *)
(***************************************************************************)
EXTENDS Integers, Sequences, FiniteSets, TLC

VARIABLES
    \* ---- get_google_books_data
    num_books,      \* the target count N (op_args)
    books,          \* list of collected records
    seen_titles,    \* set of titles already collected
    start_index,    \* offset cursor
    fpc,            \* position in get_google_books_data
    foutcome,       \* how the call ended: "none", "returned" or "raised"
    \* ---- observation of the fetcher (history, not program state)
    requests,       \* number of requests.get calls issued
    itemsSeen,      \* every item the for loop of line 65 has processed, in order
    last,           \* what the latest loop iteration did
    collected,      \* the list `books` as it was when the while loop ended
    events,         \* the requests and pauses of the call, in order
    \* ---- XCom: the handoff channel, per pipeline run
    xcom,
    \* ---- the database
    tableExists, schema, table,
    \* ---- create_books_table
    cpc, coutcome,
    cerror,         \* the exception create_books_table raised, "" when none
    \* ---- insert_book_data_into_postgres, per pipeline run
    ipc, book_data, idx, conn, cursor, txn, exc, outcome,
    \* ---- observation of the insert call (history)
    attempt,        \* how many insert calls the run has begun
    oplog,          \* the database calls of the current insert call, in order
    before,         \* the table as it was when the current insert call began
    \* ---- the scheduler of the DAG
    tstate, tries,
    \* ---- a caller that invokes the loader operations directly
    calls           \* number of invocations it has made

fetchVars == <<num_books, books, seen_titles, start_index, fpc, foutcome,
               requests, itemsSeen, last, collected, events>>
dbVars    == <<tableExists, schema, table>>
createVars == <<cpc, coutcome, cerror>>
insertVars == <<ipc, book_data, idx, conn, cursor, txn, exc, outcome,
                attempt, oplog, before>>
schedVars == <<tstate, tries>>
vars == <<fetchVars, xcom, dbVars, createVars, insertVars, schedVars, calls>>

(***************************************************************************)
(* Bounds of the model.                                                    *)
(***************************************************************************)
MaxN       == 2     \* largest target count tried
MaxPageLen == 2     \* longest page the API returns (may exceed the page size asked for)
MaxTotal   == 3     \* largest totalItems the API reports
MaxBatch   == 2     \* longest record list handed to the insert step
MaxCalls   == 2     \* invocations of the loader operations in one behaviour

max_results == 40   \* Google Books API max per request

Min(a, b) == IF a <= b THEN a ELSE b

SeqsUpTo(S, n) == UNION {[1..k -> S] : k \in 0..n}

(***************************************************************************)
(* Python helpers.                                                         *)
(***************************************************************************)
EmptyDict == [k \in {} |-> 0]

\* dict.get(key, default)
Get(d, k, def) == IF k \in DOMAIN d THEN d[k] ELSE def

\* str.strip(): drop leading and trailing whitespace
RECURSIVE LStrip(_)
LStrip(s) == IF s # <<>> /\ Head(s) = " " THEN LStrip(Tail(s)) ELSE s

RECURSIVE RStrip(_)
RStrip(s) ==
    IF s # <<>> /\ s[Len(s)] = " " THEN RStrip(SubSeq(s, 1, Len(s) - 1)) ELSE s

Strip(s) == RStrip(LStrip(s))

\* ", ".join(authors)
RECURSIVE Join(_)
Join(names) ==
    IF names = <<>> THEN ""
    ELSE IF Len(names) = 1 THEN names[1]
    ELSE names[1] \o ", " \o Join(Tail(names))

\* books[:n]
Take(s, n) == SubSeq(s, 1, Min(Len(s), n))

(***************************************************************************)
(* The items the API may serve.  Two of them carry the same title after    *)
(* trimming ("A" and " A") and differ in every other field; "a " differs   *)
(* from "A" by case only; one title is blank; one item is not a JSON       *)
(* object, so item.get raises.                                             *)
(***************************************************************************)
ItemA1 ==
    [volumeInfo |-> [title |-> <<"A">>, authors |-> <<"X", "Y">>, averageRating |-> "4.5"],
     saleInfo   |-> [retailPrice |-> [amount |-> "9.99", currencyCode |-> "USD"],
                     saleability |-> "FOR_SALE"]]
ItemA2 ==
    [volumeInfo |-> [title |-> <<" ", "A">>],
     saleInfo   |-> [saleability |-> "FOR_SALE"]]
ItemLower ==
    [volumeInfo |-> [title |-> <<"a", " ">>, authors |-> <<"Z">>]]
ItemBlank ==
    [volumeInfo |-> [title |-> <<" ">>, authors |-> <<"X">>]]
ItemMalformed ==
    [malformed |-> TRUE]

Items == {ItemA1, ItemA2, ItemLower, ItemBlank, ItemMalformed}

\* item.get(...) raises AttributeError when the item is not a JSON object
Raises(item) == "malformed" \in DOMAIN item


(***************************************************************************)
(* get_google_books_data: field derivation (lines 66-96).                  *)
(***************************************************************************)
\* line 69: volume_info.get("title", "").strip()
Title(item) == Strip(Get(Get(item, "volumeInfo", EmptyDict), "title", <<>>))

\* (mutant) line 70 without the seen_titles test
SkipItemBlankOnly(title, seen) == title = <<>>

\* line 70: `if not title or title in seen_titles: continue`
SkipItem(title, seen) == title = <<>> \/ title \in seen

\* lines 74-75
Author(item) ==
    LET authors == Get(Get(item, "volumeInfo", EmptyDict), "authors", <<>>)
    IN  IF authors # <<>> THEN Join(authors) ELSE "Unknown"

\* (mutant) line 80 as `if "amount" in price_info and "currencyCode" in price_info`
PriceBothRequired(item) ==
    LET sale_info  == Get(item, "saleInfo", EmptyDict)
        price_info == Get(sale_info, "retailPrice", EmptyDict)
    IN  IF {"amount", "currencyCode"} \subseteq DOMAIN price_info
        THEN price_info.amount \o " " \o price_info.currencyCode
        ELSE Get(sale_info, "saleability", "NOT_FOR_SALE")

\* lines 78-83
Price(item) ==
    LET sale_info  == Get(item, "saleInfo", EmptyDict)
        price_info == Get(sale_info, "retailPrice", EmptyDict)
    IN  IF DOMAIN price_info # {}
        THEN Get(price_info, "amount", "N/A") \o " " \o Get(price_info, "currencyCode", "")
        ELSE Get(sale_info, "saleability", "NOT_FOR_SALE")

\* lines 86-88
Rating(item) ==
    LET rating == Get(Get(item, "volumeInfo", EmptyDict), "averageRating", "N/A")
    IN  IF rating # "N/A" THEN rating \o "/5.0" ELSE rating

\* lines 91-96
BuildRecord(item) ==
    [title |-> Title(item), author |-> Author(item),
     price |-> Price(item), rating |-> Rating(item)]

(***************************************************************************)
(* The for loop of lines 65-96 over one page, from item i on.  `raised`    *)
(* tells that an item made the body raise; `n` counts the items the loop   *)
(* went through before that.                                               *)
(***************************************************************************)
RECURSIVE ProcessItems(_, _, _, _)
ProcessItems(items, i, bks, seen) ==
    IF i > Len(items)
    THEN [books |-> bks, seen |-> seen, raised |-> FALSE, n |-> Len(items)]
    ELSE IF Raises(items[i])
    THEN [books |-> bks, seen |-> seen, raised |-> TRUE, n |-> i - 1]
    ELSE IF SkipItem(Title(items[i]), seen)
    THEN ProcessItems(items, i + 1, bks, seen)
    ELSE ProcessItems(items, i + 1, Append(bks, BuildRecord(items[i])),
                      seen \cup {Title(items[i])})

\* (mutant) line 50 asking for a full page every time
PageSizeFixed(n, ncollected) == max_results

\* line 50: "maxResults"
PageSize(n, ncollected) == Min(max_results, n - ncollected)

\* line 60: `if "items" not in data or not data["items"]`
NoItems(data) == "items" \notin DOMAIN data \/ data.items = <<>>

\* (mutant) line 100 without the test on totalItems
StopAfterPageNoTotal(start, nitems, total, ncollected, n) == ncollected >= n

\* (mutant) line 100 with > for >=
StopAfterPageStrict(start, nitems, total, ncollected, n) ==
    start + nitems > total \/ ncollected >= n

\* line 100: `start_index + len(data["items"]) >= total_items or len(books) >= num_books`
StopAfterPage(start, nitems, total, ncollected, n) ==
    start + nitems >= total \/ ncollected >= n

\* line 47: the while condition
WantMore(ncollected, n) == ncollected < n

\* (mutant) line 114 left out
TruncateNone(bks, n) == bks

\* (mutant) line 114 keeping the last num_books records
TruncateLast(bks, n) == SubSeq(bks, Len(bks) - Min(Len(bks), n) + 1, Len(bks))

\* line 114: books[:num_books]
Truncate(bks, n) == Take(bks, n)

\* line 125: df.drop_duplicates(subset="title"), which keeps the first row of each title
DropDuplicates(rows) ==
    LET keep == {i \in 1..Len(rows) : \A j \in 1..(i - 1) : rows[j].title # rows[i].title}
        RECURSIVE Pick(_)
        Pick(i) == IF i > Len(rows) THEN <<>>
                   ELSE IF i \in keep THEN <<rows[i]>> \o Pick(i + 1) ELSE Pick(i + 1)
    IN  Pick(1)

\* lines 123, 129: pd.DataFrame(books) ... df.to_dict('records'): the rows back as
\* dicts of the four columns
ToDictRecords(rows) ==
    [i \in 1..Len(rows) |->
        [title |-> rows[i].title, author |-> rows[i].author,
         price |-> rows[i].price, rating |-> rows[i].rating]]

\* lines 117-129: the value pushed to XCom under key 'book_data'
HandoffValue(bks) ==
    IF bks = <<>> THEN <<>> ELSE ToDictRecords(DropDuplicates(bks))

(***************************************************************************)
(* What the API may answer to one request: a transport failure (timeout,   *)
(* connection error, non-2xx status: a RequestException), or a JSON        *)
(* object with or without "items" and "totalItems".  The answer does not   *)
(* depend on the parameters asked: a page may be longer than maxResults.   *)
(***************************************************************************)
Pages  == SeqsUpTo(Items, MaxPageLen)
Totals == 0..MaxTotal

Responses ==
    {[kind |-> "error"]}
    \cup {[kind |-> "ok", data |-> [items |-> p, totalItems |-> t]] : p \in Pages, t \in Totals}
    \cup {[kind |-> "ok", data |-> [items |-> p]] : p \in Pages}
    \cup {[kind |-> "ok", data |-> [totalItems |-> t]] : t \in Totals}
    \cup {[kind |-> "ok", data |-> [items |-> p, totalItemsNull |-> TRUE]] : p \in Pages}

NoLast == [kind |-> "none", offset |-> 0, size |-> 0, nitems |-> 0, total |-> 0,
           slept |-> FALSE]

\* The run that the fetcher's handoff belongs to
Runs == {"r1", "r2"}
FetchRun == "r1"

\* ti.xcom_push(key='book_data', value=v)
XComPush(run, v) == [xcom EXCEPT ![run] = [has |-> TRUE, value |-> v]]

\* line 99-100: comparing with a "totalItems" that is JSON null raises TypeError
TotalRaises(data) == "totalItemsNull" \in DOMAIN data

\* (mutant) lines 109-111 left out: only RequestException is caught
CaughtRequestOnly(e) == e = "RequestException"

\* lines 106-111: the except clauses catch RequestException and every other Exception
Caught(e) == e \in {"RequestException", "Exception"}

\* (mutant) line 104 moved before the stop check of line 100: a pause after
\* every page
SleepsAlways(stopped) == TRUE

\* lines 100-104: time.sleep(1) is reached only when the break of line 101 is not
Sleeps(stopped) == ~stopped

\* What the call did, for the record: a request with its parameters, the number
\* of records collected when it was issued, and the number of items it returned
\* (`ok` false: the request failed at transport level); a pause
RequestEvent(size, start, had, n, ok) ==
    [ev |-> "request", maxResults |-> size, startIndex |-> start, had |-> had,
     nitems |-> n, ok |-> ok]

SleepEvent == [ev |-> "sleep"]

(***************************************************************************)
(* One iteration of the while loop, lines 47-111: the request, the page's  *)
(* processing, the stop check and the pause.                               *)
(***************************************************************************)
FetchPage ==
    /\ fpc = "loop"
    /\ WantMore(Len(books), num_books)
    /\ \E resp \in Responses :
        LET size == PageSize(num_books, Len(books))
            seenLast(kind, n, total, slept) ==
                [kind |-> kind, offset |-> start_index, size |-> size,
                 nitems |-> n, total |-> total, slept |-> slept]
            \* an exception e leaves the try block: caught, the loop breaks; not
            \* caught, the call raises
            Except(e) ==
                IF Caught(e)
                THEN fpc' = "after" /\ UNCHANGED foutcome
                ELSE fpc' = "done" /\ foutcome' = "raised"
            request(n, ok) == RequestEvent(size, start_index, Len(books), n, ok)
        IN
        /\ requests' = requests + 1
        /\ IF resp.kind = "error"
           THEN \* lines 106-108: RequestException, break
                /\ Except("RequestException")
                /\ last' = seenLast("error", 0, 0, FALSE)
                /\ events' = Append(events, request(0, FALSE))
                /\ UNCHANGED <<books, seen_titles, start_index, itemsSeen>>
           ELSE IF NoItems(resp.data)
           THEN \* lines 60-62: break
                /\ fpc' = "after"
                /\ last' = seenLast("noitems", 0, 0, FALSE)
                /\ events' = Append(events, request(0, TRUE))
                /\ UNCHANGED <<books, seen_titles, start_index, itemsSeen, foutcome>>
           ELSE LET items == resp.data.items
                    r     == ProcessItems(items, 1, books, seen_titles)
                    total == Get(resp.data, "totalItems", 0)
                IN  /\ books' = r.books
                    /\ seen_titles' = r.seen
                    /\ itemsSeen' = itemsSeen \o SubSeq(items, 1, r.n)
                    /\ IF r.raised \/ TotalRaises(resp.data)
                       THEN \* lines 109-111: any other exception, break
                            /\ Except("Exception")
                            /\ last' = seenLast("raised", Len(items), 0, FALSE)
                            /\ events' = Append(events, request(Len(items), TRUE))
                            /\ UNCHANGED start_index
                       ELSE IF StopAfterPage(start_index, Len(items), total,
                                             Len(r.books), num_books)
                       THEN \* line 101: break
                            /\ fpc' = "after"
                            /\ last' = seenLast("page", Len(items), total, Sleeps(TRUE))
                            /\ events' = Append(events, request(Len(items), TRUE))
                                            \o (IF Sleeps(TRUE) THEN <<SleepEvent>> ELSE <<>>)
                            /\ UNCHANGED <<start_index, foutcome>>
                       ELSE \* lines 103-104: advance the cursor, sleep, loop
                            /\ fpc' = "loop"
                            /\ start_index' = start_index + Len(items)
                            /\ last' = seenLast("page", Len(items), total, Sleeps(FALSE))
                            /\ events' = Append(events, request(Len(items), TRUE))
                                            \o (IF Sleeps(FALSE) THEN <<SleepEvent>> ELSE <<>>)
                            /\ UNCHANGED foutcome
    /\ UNCHANGED <<num_books, collected, xcom, dbVars, createVars, insertVars,
                   schedVars, calls>>

\* line 47: the while condition is false, the loop ends
ExitLoop ==
    /\ fpc = "loop"
    /\ ~WantMore(Len(books), num_books)
    /\ fpc' = "after"
    /\ UNCHANGED <<num_books, books, seen_titles, start_index, foutcome, requests, itemsSeen,
                   last, collected, events, xcom, dbVars, createVars, insertVars,
                   schedVars, calls>>

\* lines 113-129: truncate, deduplicate, push to XCom, return
Handoff ==
    /\ fpc = "after"
    /\ collected' = books
    /\ books' = Truncate(books, num_books)
    /\ xcom' = XComPush(FetchRun, HandoffValue(books'))
    /\ fpc' = "done"
    /\ foutcome' = "returned"
    /\ UNCHANGED <<num_books, seen_titles, start_index, requests, itemsSeen, last,
                   events, dbVars, createVars, insertVars, schedVars, calls>>


(***************************************************************************)
(* The database.  `table` holds the committed rows of books, oldest first; *)
(* a row carries, beside its four columns, the run and the insert call     *)
(* that wrote it (for the claims only: the program never reads them).      *)
(***************************************************************************)
BooksSchema == "id,title,author,price,rating,created_at"
OtherSchema == "id,title"

\* (mutant) lines 148-158 as DROP TABLE IF EXISTS followed by CREATE TABLE: the
\* table is emptied by every run
CreateTableReplace(exists, sch, rows) ==
    [exists |-> TRUE, schema |-> BooksSchema, rows |-> <<>>, error |-> ""]

\* (mutant) lines 148-158 without IF NOT EXISTS: the statement fails on an
\* existing table
CreateTablePlain(exists, sch, rows) ==
    [exists |-> TRUE,
     schema |-> IF exists THEN sch ELSE BooksSchema,
     rows   |-> IF exists THEN rows ELSE <<>>,
     error  |-> IF exists THEN "DuplicateTable" ELSE ""]

\* lines 148-158: CREATE TABLE IF NOT EXISTS books (...) on a database where the
\* table exists or not, with schema sch and rows `rows`
CreateTableIfNotExists(exists, sch, rows) ==
    [exists |-> TRUE,
     schema |-> IF exists THEN sch ELSE BooksSchema,
     rows   |-> IF exists THEN rows ELSE <<>>,
     error  |-> ""]

\* create_books_table, lines 147-159: postgres_hook.run either cannot reach the
\* server and raises, or has the statement executed and commits; a statement
\* that fails raises too
CreateTable ==
    /\ cpc = "run"
    /\ \E reachable \in BOOLEAN :
        LET r == CreateTableIfNotExists(tableExists, schema, table)
        IN  IF ~reachable
            THEN /\ coutcome' = "raised"
                 /\ cerror' = "OperationalError"
                 /\ UNCHANGED dbVars
            ELSE IF r.error # ""
            THEN /\ coutcome' = "raised"
                 /\ cerror' = r.error
                 /\ UNCHANGED dbVars
            ELSE /\ tableExists' = r.exists
                 /\ schema' = r.schema
                 /\ table' = r.rows
                 /\ coutcome' = "returned"
                 /\ cerror' = ""
    /\ cpc' = "done"
    /\ UNCHANGED <<fetchVars, xcom, insertVars, schedVars, calls>>

(***************************************************************************)
(* insert_book_data_into_postgres, lines 162-211, one action per database  *)
(* call.  Each call may raise (`ok` false).                                *)
(***************************************************************************)
\* ti.xcom_pull(key='book_data', task_ids='fetch_book_data'): None when nothing
\* was pushed
XComPull(run) == xcom[run]

NoXCom == [has |-> FALSE, value |-> <<>>]

\* lines 194-197: the four bound parameters, book.get(<column>, '')
RowOf(book, run, att) ==
    [title |-> Get(book, "title", <<>>), author |-> Get(book, "author", ""),
     price |-> Get(book, "price", ""), rating |-> Get(book, "rating", ""),
     run |-> run, attempt |-> att]

Op(name, ok) == [op |-> name, ok |-> ok]

Log(r, name, ok) == oplog' = [oplog EXCEPT ![r] = Append(@, Op(name, ok))]

\* (mutant) line 180 with an autocommit connection: each statement is committed
\* as it is executed
ExecuteAutocommit(pending, committed, row) ==
    [txn |-> pending, table |-> Append(committed, row)]

\* lines 180, 191: a statement executed on the connection of get_conn() (not
\* autocommit) joins the connection's open transaction; the table shows nothing
ExecuteEffect(pending, committed, row) ==
    [txn |-> Append(pending, row), table |-> committed]

\* (mutant) line 202 inside the for loop: commit once a statement has run
CommitEarly(i, n) == i > 1

\* lines 190, 202: the commit follows the loop over all n books
CommitDue(i, n) == i > n

\* (mutant) line 175 as `if book_data is None`
NotBookDataNoneOnly(bd) == ~bd.has

\* line 175: `if not book_data`: None or an empty list
NotBookData(bd) == ~bd.has \/ bd.value = <<>>

\* lines 172-177
InsPull(r) ==
    /\ ipc[r] = "pull"
    /\ book_data' = [book_data EXCEPT ![r] = XComPull(r)]
    /\ IF NotBookData(book_data'[r])
       THEN /\ ipc' = [ipc EXCEPT ![r] = "done"]
            /\ outcome' = [outcome EXCEPT ![r] = "returned"]
       ELSE /\ ipc' = [ipc EXCEPT ![r] = "get_conn"]
            /\ UNCHANGED outcome
    /\ UNCHANGED <<fetchVars, xcom, dbVars, createVars, idx, conn, cursor, txn, exc,
                   attempt, oplog, before, schedVars, calls>>

\* lines 179-180: postgres_hook.get_conn()
InsGetConn(r) ==
    /\ ipc[r] = "get_conn"
    /\ \E ok \in BOOLEAN :
        /\ Log(r, "get_conn", ok)
        /\ IF ok
           THEN /\ conn' = [conn EXCEPT ![r] = "open"]
                /\ ipc' = [ipc EXCEPT ![r] = "cursor"]
                /\ UNCHANGED outcome
           ELSE /\ ipc' = [ipc EXCEPT ![r] = "done"]
                /\ outcome' = [outcome EXCEPT ![r] = "raised"]
                /\ UNCHANGED conn
    /\ UNCHANGED <<fetchVars, xcom, dbVars, createVars, book_data, idx, cursor, txn,
                   exc, attempt, before, schedVars, calls>>

\* line 181: conn.cursor(), before the try block
InsCursor(r) ==
    /\ ipc[r] = "cursor"
    /\ \E ok \in BOOLEAN :
        /\ Log(r, "cursor", ok)
        /\ IF ok
           THEN /\ cursor' = [cursor EXCEPT ![r] = "open"]
                /\ ipc' = [ipc EXCEPT ![r] = "loop"]
                /\ UNCHANGED outcome
           ELSE /\ ipc' = [ipc EXCEPT ![r] = "done"]
                /\ outcome' = [outcome EXCEPT ![r] = "raised"]
                /\ UNCHANGED cursor
    /\ UNCHANGED <<fetchVars, xcom, dbVars, createVars, book_data, idx, conn, txn,
                   exc, attempt, before, schedVars, calls>>

\* lines 190-200: cursor.execute(insert_query, ...) for the next book.  The
\* statement fails when the table does not exist, and may fail otherwise (a
\* constraint violation, a lost connection).
InsExecute(r) ==
    /\ ipc[r] = "loop"
    /\ idx[r] <= Len(book_data[r].value)
    /\ ~CommitDue(idx[r], Len(book_data[r].value))
    /\ \E ok \in (IF tableExists THEN BOOLEAN ELSE {FALSE}) :
        /\ Log(r, "execute", ok)
        /\ IF ok
           THEN LET e == ExecuteEffect(txn[r], table,
                                       RowOf(book_data[r].value[idx[r]], r, attempt[r]))
                IN  /\ txn' = [txn EXCEPT ![r] = e.txn]
                    /\ table' = e.table
                    /\ idx' = [idx EXCEPT ![r] = @ + 1]
                    /\ UNCHANGED ipc
           ELSE /\ ipc' = [ipc EXCEPT ![r] = "rollback"]
                /\ UNCHANGED <<txn, idx, table>>
    /\ UNCHANGED <<fetchVars, xcom, tableExists, schema, createVars, book_data, conn,
                   cursor, exc, outcome, attempt, before, schedVars, calls>>

\* line 202: conn.commit(), after the loop
InsCommit(r) ==
    /\ ipc[r] = "loop"
    /\ CommitDue(idx[r], Len(book_data[r].value))
    /\ \E ok \in BOOLEAN :
        /\ Log(r, "commit", ok)
        /\ IF ok
           THEN /\ table' = table \o txn[r]
                /\ txn' = [txn EXCEPT ![r] = <<>>]
                /\ ipc' = [ipc EXCEPT ![r] = "cursor_close"]
           ELSE /\ ipc' = [ipc EXCEPT ![r] = "rollback"]
                /\ UNCHANGED <<table, txn>>
    /\ UNCHANGED <<fetchVars, xcom, tableExists, schema, createVars, book_data, idx,
                   conn, cursor, exc, outcome, attempt, before, schedVars, calls>>

\* (mutant) lines 180, 206 with one connection shared by all runs: a rollback
\* discards every run's pending rows
RollbackShared(pending, r) == [q \in DOMAIN pending |-> <<>>]

\* lines 180, 206: conn.rollback() on the connection this call got from
\* get_conn(): it discards the rows pending on that connection only
RollbackEffect(pending, r) == [pending EXCEPT ![r] = <<>>]

\* lines 205-208: conn.rollback(), then `raise`; when the rollback itself raises,
\* that exception propagates instead
InsRollback(r) ==
    /\ ipc[r] = "rollback"
    /\ \E ok \in BOOLEAN :
        /\ Log(r, "rollback", ok)
        /\ txn' = IF ok THEN RollbackEffect(txn, r) ELSE txn
    /\ exc' = [exc EXCEPT ![r] = TRUE]
    /\ ipc' = [ipc EXCEPT ![r] = "cursor_close"]
    /\ UNCHANGED <<fetchVars, xcom, dbVars, createVars, book_data, idx, conn, cursor,
                   outcome, attempt, before, schedVars, calls>>

\* line 210: cursor.close(), first statement of the finally block
InsCursorClose(r) ==
    /\ ipc[r] = "cursor_close"
    /\ \E ok \in BOOLEAN :
        /\ Log(r, "cursor.close", ok)
        /\ IF ok
           THEN /\ cursor' = [cursor EXCEPT ![r] = "closed"]
                /\ ipc' = [ipc EXCEPT ![r] = "conn_close"]
                /\ UNCHANGED outcome
           ELSE /\ ipc' = [ipc EXCEPT ![r] = "done"]
                /\ outcome' = [outcome EXCEPT ![r] = "raised"]
                /\ UNCHANGED cursor
    /\ UNCHANGED <<fetchVars, xcom, dbVars, createVars, book_data, idx, conn, txn,
                   exc, attempt, before, schedVars, calls>>

\* line 211: conn.close(): the server discards what the connection has not
\* committed; then the call returns, or re-raises the exception in flight
InsConnClose(r) ==
    /\ ipc[r] = "conn_close"
    /\ Log(r, "conn.close", TRUE)
    /\ conn' = [conn EXCEPT ![r] = "closed"]
    /\ txn' = [txn EXCEPT ![r] = <<>>]
    /\ outcome' = [outcome EXCEPT ![r] = IF exc[r] THEN "raised" ELSE "returned"]
    /\ ipc' = [ipc EXCEPT ![r] = "done"]
    /\ UNCHANGED <<fetchVars, xcom, dbVars, createVars, book_data, idx, cursor,
                   exc, attempt, before, schedVars, calls>>

InsertStep(r) ==
    \/ InsPull(r)
    \/ InsGetConn(r)
    \/ InsCursor(r)
    \/ InsExecute(r)
    \/ InsCommit(r)
    \/ InsRollback(r)
    \/ InsCursorClose(r)
    \/ InsConnClose(r)

\* A call of insert_book_data_into_postgres begins: fresh locals
BeginInsert(r) ==
    /\ ipc' = [ipc EXCEPT ![r] = "pull"]
    /\ book_data' = [book_data EXCEPT ![r] = NoXCom]
    /\ idx' = [idx EXCEPT ![r] = 1]
    /\ conn' = [conn EXCEPT ![r] = "none"]
    /\ cursor' = [cursor EXCEPT ![r] = "none"]
    /\ txn' = [txn EXCEPT ![r] = <<>>]
    /\ exc' = [exc EXCEPT ![r] = FALSE]
    /\ outcome' = [outcome EXCEPT ![r] = "none"]
    /\ attempt' = [attempt EXCEPT ![r] = @ + 1]
    /\ oplog' = [oplog EXCEPT ![r] = <<>>]
    /\ before' = [before EXCEPT ![r] = table]


(***************************************************************************)
(* The DAG, lines 218-266: three tasks, fetch >> create_table >> insert,   *)
(* each with `retries` more attempts after a failure.  A task starts once  *)
(* all its upstream tasks have succeeded (the default trigger rule).       *)
(***************************************************************************)
Tasks == {"fetch", "create", "insert"}

\* (mutant) line 266 as fetch_book_data_task >> [create_table_task, insert_book_data_task]
UpstreamFetchOnly(t) ==
    CASE t = "fetch"  -> {}
      [] t = "create" -> {"fetch"}
      [] t = "insert" -> {"fetch"}

\* line 266: fetch_book_data_task >> create_table_task >> insert_book_data_task
Upstream(t) ==
    CASE t = "fetch"  -> {}
      [] t = "create" -> {"fetch"}
      [] t = "insert" -> {"create"}

\* line 224: 'retries': 1
retries == 1

Runnable(t) ==
    /\ tstate[t] \in {"none", "up_for_retry"}
    /\ \A u \in Upstream(t) : tstate[u] = "success"

Started(t) ==
    /\ tstate' = [tstate EXCEPT ![t] = "running"]
    /\ tries' = [tries EXCEPT ![t] = @ + 1]

\* lines 40-43: the locals of get_google_books_data
StartFetchTask ==
    /\ Runnable("fetch")
    /\ Started("fetch")
    /\ books' = <<>>
    /\ seen_titles' = {}
    /\ start_index' = 0
    /\ fpc' = "loop"
    /\ foutcome' = "none"
    /\ requests' = 0
    /\ itemsSeen' = <<>>
    /\ last' = NoLast
    /\ collected' = <<>>
    /\ events' = <<>>
    /\ UNCHANGED <<num_books, xcom, dbVars, createVars, insertVars, calls>>

StartCreateTask ==
    /\ Runnable("create")
    /\ Started("create")
    /\ cpc' = "run"
    /\ coutcome' = "none"
    /\ cerror' = ""
    /\ UNCHANGED <<fetchVars, xcom, dbVars, insertVars, calls>>

StartInsertTask ==
    /\ Runnable("insert")
    /\ Started("insert")
    /\ BeginInsert(FetchRun)
    /\ UNCHANGED <<fetchVars, xcom, dbVars, createVars, calls>>

\* How the running task's callable ended: "none" while it has not
TaskResult(t) ==
    CASE t = "fetch"  -> IF fpc = "done" THEN foutcome ELSE "none"
      [] t = "create" -> IF cpc = "done" THEN coutcome ELSE "none"
      [] t = "insert" -> IF ipc[FetchRun] = "done" THEN outcome[FetchRun] ELSE "none"

\* The task's state after an attempt that ended with `result`
AfterAttempt(t, result) ==
    IF result = "returned" THEN "success"
    ELSE IF tries[t] <= retries THEN "up_for_retry"
    ELSE "failed"

FinishTask(t) ==
    /\ tstate[t] = "running"
    /\ TaskResult(t) # "none"
    /\ tstate' = [tstate EXCEPT ![t] = AfterAttempt(t, TaskResult(t))]
    /\ UNCHANGED <<fetchVars, xcom, dbVars, createVars, insertVars, tries, calls>>

\* A task whose upstream failed is never run
SkipTask(t) ==
    /\ tstate[t] = "none"
    /\ \E u \in Upstream(t) : tstate[u] \in {"failed", "upstream_failed"}
    /\ tstate' = [tstate EXCEPT ![t] = "upstream_failed"]
    /\ UNCHANGED <<fetchVars, xcom, dbVars, createVars, insertVars, tries, calls>>

(***************************************************************************)
(* A caller that invokes the two loader operations directly, one call at a *)
(* time, in any order, with any handoff value.                             *)
(***************************************************************************)
BatchRecords ==
    {BuildRecord(ItemA1), [title |-> <<"a">>, author |-> "Z"]}

Batches == SeqsUpTo(BatchRecords, MaxBatch)

XComValues == {NoXCom} \cup {[has |-> TRUE, value |-> b] : b \in Batches}

NoCallRunning == cpc # "run" /\ \A r \in Runs : ipc[r] \in {"idle", "done"}

CallCreate ==
    /\ calls < MaxCalls
    /\ NoCallRunning
    /\ calls' = calls + 1
    /\ cpc' = "run"
    /\ coutcome' = "none"
    /\ cerror' = ""
    /\ UNCHANGED <<fetchVars, xcom, dbVars, insertVars, schedVars>>

CallInsert(r) ==
    /\ calls < MaxCalls
    /\ NoCallRunning
    /\ calls' = calls + 1
    /\ \E v \in XComValues : xcom' = [xcom EXCEPT ![r] = v]
    /\ BeginInsert(r)
    /\ UNCHANGED <<fetchVars, dbVars, createVars, schedVars>>

(***************************************************************************)
(* Initial states.                                                         *)
(***************************************************************************)
\* A row written by an earlier run
OldRow == RowOf(BuildRecord(ItemA1), "r0", 0)

InitDB ==
    /\ tableExists \in BOOLEAN
    /\ schema \in (IF tableExists THEN {BooksSchema, OtherSchema} ELSE {"none"})
    /\ table \in (IF tableExists THEN {<<>>, <<OldRow>>} ELSE {<<>>})

InitFetchLocals ==
    /\ foutcome = "none"
    /\ books = <<>>
    /\ seen_titles = {}
    /\ start_index = 0
    /\ requests = 0
    /\ itemsSeen = <<>>
    /\ last = NoLast
    /\ collected = <<>>
    /\ events = <<>>

InitLoaderIdle ==
    /\ cpc = "idle"
    /\ coutcome = "none"
    /\ cerror = ""
    /\ ipc = [r \in Runs |-> "idle"]
    /\ book_data = [r \in Runs |-> NoXCom]
    /\ idx = [r \in Runs |-> 1]
    /\ conn = [r \in Runs |-> "none"]
    /\ cursor = [r \in Runs |-> "none"]
    /\ txn = [r \in Runs |-> <<>>]
    /\ exc = [r \in Runs |-> FALSE]
    /\ outcome = [r \in Runs |-> "none"]
    /\ attempt = [r \in Runs |-> 0]
    /\ oplog = [r \in Runs |-> <<>>]
    /\ before = [r \in Runs |-> <<>>]

InitSchedIdle ==
    /\ tstate = [t \in Tasks |-> "none"]
    /\ tries = [t \in Tasks |-> 0]
    /\ calls = 0

\* The target counts tried: the small ones, and one beyond the API's page cap
TargetCounts == (0..MaxN) \cup {max_results + 1}

\* get_google_books_data called with any target count, at line 47
InitFetch ==
    /\ num_books \in TargetCounts
    /\ InitFetchLocals
    /\ fpc = "loop"
    /\ xcom = [r \in Runs |-> NoXCom]
    /\ tableExists = FALSE /\ schema = "none" /\ table = <<>>
    /\ InitLoaderIdle
    /\ InitSchedIdle

NextFetch ==
    \/ FetchPage
    \/ ExitLoop
    \/ Handoff

SpecFetch == InitFetch /\ [][NextFetch]_vars

\* The call runs on one thread without suspension points other than its blocking
\* calls, which all return or time out (line 56: timeout=10): it keeps stepping
SpecFetchLive == SpecFetch /\ WF_vars(NextFetch)

\* The loader operations invoked directly on any database
InitLoader ==
    /\ num_books = 0
    /\ InitFetchLocals
    /\ fpc = "idle"
    /\ xcom = [r \in Runs |-> NoXCom]
    /\ InitDB
    /\ InitLoaderIdle
    /\ InitSchedIdle

NextLoader ==
    \/ CallCreate
    \/ CreateTable
    \/ CallInsert("r1")
    \/ InsPull("r1")
    \/ InsGetConn("r1")
    \/ InsCursor("r1")
    \/ InsExecute("r1")
    \/ InsCommit("r1")
    \/ InsRollback("r1")
    \/ InsCursorClose("r1")
    \/ InsConnClose("r1")

SpecLoader == InitLoader /\ [][NextLoader]_vars

\* The insert steps of two runs started on the same database, each with its own
\* handoff value, their database calls interleaved in any order
InitConc ==
    /\ num_books = 0
    /\ InitFetchLocals
    /\ fpc = "idle"
    /\ xcom \in [Runs -> XComValues]
    /\ InitDB
    /\ cpc = "idle"
    /\ coutcome = "none"
    /\ cerror = ""
    /\ ipc = [r \in Runs |-> "pull"]
    /\ book_data = [r \in Runs |-> NoXCom]
    /\ idx = [r \in Runs |-> 1]
    /\ conn = [r \in Runs |-> "none"]
    /\ cursor = [r \in Runs |-> "none"]
    /\ txn = [r \in Runs |-> <<>>]
    /\ exc = [r \in Runs |-> FALSE]
    /\ outcome = [r \in Runs |-> "none"]
    /\ attempt = [r \in Runs |-> 1]
    /\ oplog = [r \in Runs |-> <<>>]
    /\ before = [r \in Runs |-> table]
    /\ InitSchedIdle

NextConc ==
    \/ InsPull("r1")
    \/ InsGetConn("r1")
    \/ InsCursor("r1")
    \/ InsExecute("r1")
    \/ InsCommit("r1")
    \/ InsRollback("r1")
    \/ InsCursorClose("r1")
    \/ InsConnClose("r1")
    \/ InsPull("r2")
    \/ InsGetConn("r2")
    \/ InsCursor("r2")
    \/ InsExecute("r2")
    \/ InsCommit("r2")
    \/ InsRollback("r2")
    \/ InsCursorClose("r2")
    \/ InsConnClose("r2")

SpecConc == InitConc /\ [][NextConc]_vars

(***************************************************************************)
(* The body of the for loop (lines 66-96) applied to one item, for the     *)
(* derivation of the fields.  The items all carry the title "A" and differ *)
(* in what their volumeInfo and saleInfo hold.                             *)
(***************************************************************************)
RetailPrices ==
    {EmptyDict}
    \cup {[amount |-> a] : a \in {"9.99", "0"}}
    \cup {[currencyCode |-> c] : c \in {"USD", "EUR"}}
    \cup {[amount |-> a, currencyCode |-> c] : a \in {"9.99", "0"}, c \in {"USD", "EUR"}}

Saleabilities == {"FOR_SALE", "NOT_FOR_SALE", "FREE"}

SaleInfos ==
    {EmptyDict}
    \cup {[saleability |-> v] : v \in Saleabilities}
    \cup {[retailPrice |-> p] : p \in RetailPrices}
    \cup {[retailPrice |-> p, saleability |-> v] : p \in RetailPrices, v \in Saleabilities}

VolumeInfos ==
    {[title |-> <<"A">>], [title |-> <<"A">>, averageRating |-> "4.5"]}
    \cup {[title |-> <<"A">>, authors |-> a] : a \in {<<>>, <<"X">>, <<"X", "Y">>}}
    \cup {[title |-> <<"A">>, authors |-> a, averageRating |-> "4.5"] :
             a \in {<<>>, <<"X">>, <<"X", "Y">>}}

FieldItems ==
    {[volumeInfo |-> v] : v \in VolumeInfos}
    \cup {[volumeInfo |-> v, saleInfo |-> x] : v \in VolumeInfos, x \in SaleInfos}

\* lines 66-96: one item goes through the loop body
ProcessItem ==
    /\ fpc = "item"
    /\ \E item \in FieldItems :
        LET r == ProcessItems(<<item>>, 1, books, seen_titles)
        IN  /\ books' = r.books
            /\ seen_titles' = r.seen
            /\ itemsSeen' = Append(itemsSeen, item)
    /\ fpc' = "built"
    /\ UNCHANGED <<num_books, start_index, foutcome, requests, last, collected, events,
                   xcom, dbVars, createVars, insertVars, schedVars, calls>>

InitItem ==
    /\ num_books = 1
    /\ InitFetchLocals
    /\ fpc = "item"
    /\ xcom = [r \in Runs |-> NoXCom]
    /\ InitDB
    /\ InitLoaderIdle
    /\ InitSchedIdle

NextItem == ProcessItem

SpecItem == InitItem /\ [][NextItem]_vars

\* One run of the DAG under the scheduler
InitPipe ==
    /\ num_books \in {0, 1}
    /\ InitFetchLocals
    /\ fpc = "idle"
    /\ xcom = [r \in Runs |-> NoXCom]
    /\ InitDB
    /\ InitLoaderIdle
    /\ InitSchedIdle

NextPipe ==
    \/ StartFetchTask
    \/ StartCreateTask
    \/ StartInsertTask
    \/ \E t \in Tasks : FinishTask(t)
    \/ \E t \in Tasks : SkipTask(t)
    \/ FetchPage
    \/ ExitLoop
    \/ Handoff
    \/ CreateTable
    \/ InsPull(FetchRun)
    \/ InsGetConn(FetchRun)
    \/ InsCursor(FetchRun)
    \/ InsExecute(FetchRun)
    \/ InsCommit(FetchRun)
    \/ InsRollback(FetchRun)
    \/ InsCursorClose(FetchRun)
    \/ InsConnClose(FetchRun)

Spec == InitPipe /\ [][NextPipe]_vars


(***************************************************************************)
(* Properties of get_google_books_data (checked under SpecFetch).          *)
(***************************************************************************)
\* The record list handed off by the fetcher
Out == xcom[FetchRun].value

HandedOff == fpc = "done" /\ foutcome = "returned" /\ xcom[FetchRun].has

\* The records built from the first item of each distinct non-blank title of
\* `items`, in the order of those first items
FirstRecs(items) ==
    LET first == {i \in 1..Len(items) :
                    /\ Title(items[i]) # <<>>
                    /\ \A j \in 1..(i - 1) : Title(items[j]) # Title(items[i])}
        RECURSIVE From(_)
        From(i) == IF i > Len(items) THEN <<>>
                   ELSE IF i \in first THEN <<BuildRecord(items[i])>> \o From(i + 1)
                   ELSE From(i + 1)
    IN  From(1)

\* C1: for every target count N >= 0 and every sequence of page responses, the
\* handed-off list has at most N records, every title is non-empty and trimmed,
\* and no two records have the same title.
C1_AtMostNUniqueTitled ==
    fpc = "done" =>
        /\ HandedOff
        /\ Len(Out) <= num_books
        /\ \A i \in 1..Len(Out) :
            /\ Out[i].title # <<>>
            /\ Strip(Out[i].title) = Out[i].title
            /\ \A j \in 1..Len(Out) : Out[i].title = Out[j].title => i = j

\* C1 witness: a run whose pages held skipped items and more unique titles than
\* N, handed off with exactly N >= 1 records
C1_Witness ==
    /\ HandedOff
    /\ num_books >= 1
    /\ Len(Out) = num_books
    /\ Len(collected) > num_books
    /\ \E i \in 1..Len(itemsSeen) : Title(itemsSeen[i]) = <<>>

\* C4 as stated: the output keeps, for each distinct title seen in the run, the
\* record built from the first item carrying it, in order of first occurrence.
C4_Original ==
    HandedOff => Out = FirstRecs(itemsSeen)

\* C4 amended: the output is the first N of those first-occurrence records: a
\* title first seen after N records were collected is dropped by line 114.
C4_FirstOccurrencesUpToN ==
    fpc = "done" => HandedOff /\ Out = Take(FirstRecs(itemsSeen), num_books)

\* C4 witness: a title repeated across two pages with different fields, and
\* another title after it; both first occurrences are handed off
C4_Witness ==
    /\ HandedOff
    /\ requests >= 2
    /\ Len(Out) = 2
    /\ Len(itemsSeen) >= 3
    /\ \E i, j \in 1..Len(itemsSeen) :
        i < j /\ Title(itemsSeen[i]) = Title(itemsSeen[j]) /\ itemsSeen[i] # itemsSeen[j]
              /\ Title(itemsSeen[i]) # <<>>

Failed == last.kind \in {"error", "raised"}

\* C5 as stated: after a failed page no further request is issued, the call does
\* not raise, and it hands off exactly the records collected up to the failure.
C5_Original ==
    Failed =>
        /\ fpc # "loop"
        /\ foutcome # "raised"
        /\ fpc = "done" => HandedOff /\ Out = collected

\* C5 amended: ... hands off the records collected up to the failure, cut to the
\* first N of them when a page longer than asked for had carried the list past N.
C5_PartialSuccess ==
    Failed =>
        /\ fpc # "loop"
        /\ foutcome # "raised"
        /\ fpc = "after" => books = FirstRecs(itemsSeen)
        /\ fpc = "done" =>
            /\ HandedOff
            /\ collected = FirstRecs(itemsSeen)
            /\ Out = Take(collected, num_books)

\* C5 witness: the second page raised while it was processed, after records of
\* both pages had been collected; they are handed off
C5_Witness ==
    /\ last.kind = "raised"
    /\ requests = 2
    /\ HandedOff
    /\ Len(Out) = 2

\* C5 witness of the transport failure: nothing collected, an empty list handed off
C5_WitnessEmpty ==
    /\ last.kind = "error"
    /\ HandedOff
    /\ Out = <<>>

\* The records collected when the latest page had been processed
NCollected == IF fpc = "done" THEN Len(collected) ELSE Len(books)

\* C8: after a successfully fetched page the fetcher issues another request iff
\* none of (a) no items, (b) offset + items >= totalItems, (c) collected >= N
\* holds; and with totalItems = 2 and one page of two items with the same title,
\* a target of at least 2 gives one request and one record.
C8_StopConditions ==
    /\ last.kind \in {"page", "noitems"} =>
        ((fpc = "loop" /\ ENABLED FetchPage)
            <=> ~(\/ last.nitems = 0
                  \/ last.offset + last.nitems >= last.total
                  \/ NCollected >= num_books))
    /\ ( /\ requests = 1
         /\ last.kind = "page" /\ last.nitems = 2 /\ last.total = 2
         /\ Len(itemsSeen) = 2
         /\ Title(itemsSeen[1]) = Title(itemsSeen[2])
         /\ Title(itemsSeen[1]) # <<>>
         /\ num_books >= 2 )
       => /\ fpc # "loop"
          /\ fpc = "done" => HandedOff /\ Out = <<BuildRecord(itemsSeen[1])>>

\* C8 witness: the scenario's run, ended after its single request
C8_Witness ==
    /\ fpc = "done"
    /\ requests = 1
    /\ num_books = MaxN
    /\ last.kind = "page" /\ last.nitems = 2 /\ last.total = 2
    /\ Title(itemsSeen[1]) = Title(itemsSeen[2])
    /\ Len(Out) = 1

\* C8 witness of the other direction: a page after which none of the three holds,
\* and a further request
C8_WitnessContinue ==
    /\ requests = 2
    /\ last.kind = "page"
    /\ last.offset > 0
    /\ fpc = "loop"


(***************************************************************************)
(* Properties of the loader (checked under SpecLoader, run "r1").          *)
(***************************************************************************)
HasOp(r, name, ok) == \E i \in 1..Len(oplog[r]) : oplog[r][i] = Op(name, ok)

CountOp(r, name) == Cardinality({i \in 1..Len(oplog[r]) : oplog[r][i].op = name})

\* The rows of the table written by the current insert call of run r
RowsOfCall(r) ==
    {i \in 1..Len(table) : table[i].run = r /\ table[i].attempt = attempt[r]}

\* One row per record of the batch of run r's current call, in batch order
RowsFor(r) ==
    [i \in 1..Len(book_data[r].value) |-> RowOf(book_data[r].value[i], r, attempt[r])]

InsertDone(r) == ipc[r] = "done" /\ attempt[r] > 0

\* C2: if the k-th insert statement raises, the table holds none of the batch's
\* rows afterwards (and at no time before), no commit happens, the rollback is
\* issued, and the call raises.
C2_InsertAtomicity ==
    HasOp("r1", "execute", FALSE) =>
        /\ RowsOfCall("r1") = {}
        /\ table = before["r1"]
        /\ CountOp("r1", "commit") = 0
        /\ InsertDone("r1") =>
            /\ outcome["r1"] = "raised"
            /\ CountOp("r1", "rollback") = 1

\* C2 witness: a batch of two whose second insert raised after the first had
\* been executed, on a table that already held a row
C2_Witness ==
    /\ InsertDone("r1")
    /\ Len(book_data["r1"].value) = 2
    /\ Len(oplog["r1"]) >= 4
    /\ oplog["r1"][3] = Op("execute", TRUE)
    /\ oplog["r1"][4] = Op("execute", FALSE)
    /\ outcome["r1"] = "raised"
    /\ table = <<OldRow>>

C6_ResourcesReleased ==
    (InsertDone("r1") /\ HasOp("r1", "get_conn", TRUE)) =>
        /\ conn["r1"] = "closed"
        /\ cursor["r1"] \in {"none", "closed"}

\* What the code does guarantee: once the cursor exists and cursor.close() does
\* not raise, both are closed, whether the inserts, the commit or the rollback
\* raised or not.
ReleasedWhenCursorCloses ==
    ( /\ InsertDone("r1")
      /\ HasOp("r1", "cursor", TRUE)
      /\ ~HasOp("r1", "cursor.close", FALSE) )
    => conn["r1"] = "closed" /\ cursor["r1"] = "closed"

\* C9: create_books_table on a database where the table exists does not fail
\* for that reason (the only error left is an unreachable server) and leaves
\* the table's schema and rows as they were.
C9_CreateIdempotent ==
    [][(cpc = "run" /\ cpc' = "done" /\ tableExists) =>
            /\ UNCHANGED <<tableExists, schema, table>>
            /\ cerror' \in {"", "OperationalError"}
            /\ (cerror' = "") <=> (coutcome' = "returned")]_vars

\* C9 witness: the second of two create calls in sequence has returned, on a
\* table of another schema that holds a row
C9_Witness ==
    /\ calls = 2
    /\ attempt["r1"] = 0
    /\ cpc = "done"
    /\ coutcome = "returned"
    /\ schema = OtherSchema
    /\ table = <<OldRow>>

\* What a successful insert call of M records logs up to its commit
ExpectedLog(m) ==
    <<Op("get_conn", TRUE), Op("cursor", TRUE)>>
        \o [i \in 1..m |-> Op("execute", TRUE)]
        \o <<Op("commit", TRUE)>>

CommitsOnceLast(r) ==
    LET m == Len(book_data[r].value)
    IN  /\ CountOp(r, "commit") = 1
        /\ Len(oplog[r]) >= m + 3
        /\ SubSeq(oplog[r], 1, m + 3) = ExpectedLog(m)
        /\ CountOp(r, "rollback") = 0
        /\ table = before[r] \o RowsFor(r)

\* C10 as stated: when no insert statement of a non-empty batch raises, one
\* commit is issued, after all M inserts, no rollback is issued and the table
\* gains exactly the M rows.
C10_Original ==
    ( /\ InsertDone("r1")
      /\ HasOp("r1", "cursor", TRUE)
      /\ ~HasOp("r1", "execute", FALSE) )
    => CommitsOnceLast("r1")

\* C10 amended: ... when no insert statement raises and the commit does not
\* raise either ...
C10_CommitOnceLast ==
    ( /\ InsertDone("r1")
      /\ HasOp("r1", "cursor", TRUE)
      /\ ~HasOp("r1", "execute", FALSE)
      /\ ~HasOp("r1", "commit", FALSE) )
    => CommitsOnceLast("r1")

\* C10 witness: a batch of two committed on a table that held a row
C10_Witness ==
    /\ InsertDone("r1")
    /\ Len(book_data["r1"].value) = 2
    /\ HasOp("r1", "commit", TRUE)
    /\ outcome["r1"] = "returned"
    /\ Len(table) = 3

(***************************************************************************)
(* Properties of a run of the DAG (checked under Spec).                    *)
(***************************************************************************)
\* C7: create-schema does not start before fetch has succeeded, insert does not
\* start before create-schema has succeeded, and when create-schema has failed
\* on all its attempts no insert statement is executed in the run.
C7_StepOrdering ==
    /\ (tries["create"] > 0 \/ cpc = "run") => tstate["fetch"] = "success"
    /\ (tries["insert"] > 0 \/ attempt[FetchRun] > 0) => tstate["create"] = "success"
    /\ tstate["create"] = "failed" =>
        /\ tries["create"] = retries + 1
        /\ oplog[FetchRun] = <<>>
        /\ tstate["insert"] \in {"none", "upstream_failed"}

\* C7 witness: create-schema failed on both attempts and the insert step was
\* skipped
C7_Witness ==
    /\ tstate["fetch"] = "success"
    /\ tstate["create"] = "failed"
    /\ tstate["insert"] = "upstream_failed"

\* C7 witness of the order: the three steps succeeded, rows were inserted
C7_WitnessSuccess ==
    /\ \A t \in Tasks : tstate[t] = "success"
    /\ HasOp(FetchRun, "execute", TRUE)
    /\ table # <<>>

(***************************************************************************)
(* The requests and pauses of a call of the fetcher (checked under         *)
(* SpecFetch).                                                             *)
(***************************************************************************)
IsRequest(e) == e.ev = "request"

\* The requests of the call, in order
Reqs == SelectSeq(events, IsRequest)

\* The number of items returned by the first k requests
RECURSIVE ItemsOf(_, _)
ItemsOf(reqs, k) == IF k = 0 THEN 0 ELSE ItemsOf(reqs, k - 1) + reqs[k].nitems

\* C11: the first request has offset 0; every request asks for
\* min(40, N - records collected so far) results; every later request has for
\* offset the sum of the item counts of the pages fetched before it, skipped
\* items included.
C11_RequestParameters ==
    \A i \in 1..Len(Reqs) :
        /\ i = 1 => Reqs[i].startIndex = 0
        /\ Reqs[i].maxResults = Min(40, num_books - Reqs[i].had)
        /\ Reqs[i].startIndex = ItemsOf(Reqs, i - 1)

\* C11 witness: a second request after a page of two items of which one was
\* skipped, asking for the page cap since N - 1 exceeds it
C11_Witness ==
    /\ Len(Reqs) = 2
    /\ Reqs[1].nitems = 2
    /\ Reqs[2].had = 1
    /\ Reqs[2].startIndex = 2
    /\ Reqs[2].maxResults = 40
    /\ num_books = 41

\* C11 witness below the cap: the second request asks for the one record missing
C11_WitnessBelowCap ==
    /\ Len(Reqs) = 2
    /\ num_books = 2
    /\ Reqs[1].maxResults = 2
    /\ Reqs[2].had = 1
    /\ Reqs[2].maxResults = 1

IsSleep(e) == e.ev = "sleep"

\* The loop of the call has ended
LoopEnded == fpc \in {"after", "done"}

\* Exactly one pause between any two consecutive requests
OnePauseBetweenRequests ==
    \A i \in 1..Len(events) : \A j \in (i + 1)..Len(events) :
        (/\ IsRequest(events[i]) /\ IsRequest(events[j])
         /\ \A k \in (i + 1)..(j - 1) : ~IsRequest(events[k]))
        => /\ j = i + 2
           /\ IsSleep(events[i + 1])

\* The position in `events` of the last request that was answered (0: none)
LastFetched ==
    LET answered == {i \in 1..Len(events) : IsRequest(events[i]) /\ events[i].ok}
    IN IF answered = {} THEN 0 ELSE CHOOSE i \in answered : \A j \in answered : j <= i

\* C12 as stated: one pause between consecutive requests, and once the loop has
\* ended no pause after the last page successfully fetched, also when the loop
\* ended by the failure of the request that followed it.
C12_Original ==
    /\ OnePauseBetweenRequests
    /\ LoopEnded => \A k \in 1..Len(events) : IsSleep(events[k]) => k < LastFetched

\* C12 (amended): one pause between consecutive requests, every pause follows a
\* page with items and is followed by the next request, and once the loop has
\* ended no pause comes after the last request of the call.
C12_PauseBetweenRequests ==
    /\ OnePauseBetweenRequests
    /\ \A k \in 1..Len(events) : IsSleep(events[k]) =>
          /\ k > 1
          /\ IsRequest(events[k - 1])
          /\ events[k - 1].ok
          /\ events[k - 1].nitems > 0
          /\ k < Len(events) => IsRequest(events[k + 1])
          /\ LoopEnded => k < Len(events)

\* C12 witness: a page, the pause, then a request that fails and ends the loop
C12_Witness ==
    /\ LoopEnded
    /\ Len(events) = 3
    /\ IsRequest(events[1]) /\ events[1].ok
    /\ IsSleep(events[2])
    /\ IsRequest(events[3]) /\ ~events[3].ok

\* C12 witness of the stop without pause: two pages, one pause between them and
\* none after the second, which met a stop condition
C12_WitnessStop ==
    /\ LoopEnded
    /\ Len(events) = 3
    /\ IsSleep(events[2])
    /\ IsRequest(events[3]) /\ events[3].ok /\ events[3].nitems > 0

(***************************************************************************)
(* The truncation and the post-fetch pass (checked under SpecFetch).       *)
(***************************************************************************)
\* C13: when more than N records were collected the handoff holds exactly the
\* first N of them in collection order; when none was collected the handoff is
\* the empty sequence and the fetch step does not fail.
C13_TruncationKeepsPrefix ==
    fpc = "done" =>
        /\ Len(collected) > num_books =>
              HandedOff /\ Out = SubSeq(collected, 1, num_books)
        /\ collected = <<>> => HandedOff /\ Out = <<>>

\* C13 witness: two records collected for a target of one, the first handed off
C13_Witness ==
    /\ HandedOff
    /\ num_books = 1
    /\ Len(collected) = 2
    /\ Out = <<collected[1]>>
    /\ collected[1] # collected[2]

\* C13 witness of the empty run: requests were made, nothing was collected
C13_WitnessEmpty ==
    /\ HandedOff
    /\ requests > 0
    /\ collected = <<>>
    /\ Out = <<>>

(***************************************************************************)
(* The table over a sequence of loader calls (checked under SpecLoader).   *)
(***************************************************************************)
\* Run r's insert call commits in this step
Commits(r) ==
    /\ Len(oplog'[r]) = Len(oplog[r]) + 1
    /\ oplog'[r][Len(oplog'[r])] = Op("commit", TRUE)

\* C14: no step of any call, successful or failed, first or repeated, changes
\* or removes a row already in the table, and a commit appends one new row per
\* record of the batch, also for titles the table already holds.
C14_AppendOnly ==
    [][/\ Len(table') >= Len(table)
       /\ SubSeq(table', 1, Len(table)) = table
       /\ \A r \in Runs : Commits(r) => table' = table \o RowsFor(r)]_vars

\* C14 witness: a second insert call has committed after a first one that added
\* nothing; the row of an earlier run is still first and a new row with the same
\* title follows it
C14_Witness ==
    /\ InsertDone("r1")
    /\ attempt["r1"] = 2
    /\ outcome["r1"] = "returned"
    /\ Len(table) = 2
    /\ table[1] = OldRow
    /\ table[2].run = "r1"
    /\ table[2].attempt = 2
    /\ table[2].title = OldRow.title

(***************************************************************************)
(* Two insert steps at once (checked under SpecConc).                      *)
(***************************************************************************)
\* The rows of the table written by run r, in table order
RowsOfRun(r) ==
    LET OfRun(row) == row.run = r
    IN  SelectSeq(table, OfRun)

\* C15: whatever the interleaving of the two insert steps, the table holds for
\* each run all the rows of its batch, in batch order, once it has committed and
\* none of them otherwise, whatever the other run does; the rows that were
\* there before stay.
C15_RunsIndependent ==
    /\ \A r \in Runs :
          IF HasOp(r, "commit", TRUE)
          THEN RowsOfRun(r) = RowsFor(r)
          ELSE RowsOfRun(r) = <<>>
    /\ RowsOfRun("r0") = before["r1"]

\* C15 witness: run r2 rolled back after one good insert statement and raised,
\* run r1 committed its two rows, and both calls are over
C15_Witness ==
    /\ InsertDone("r1") /\ InsertDone("r2")
    /\ HasOp("r2", "execute", TRUE)
    /\ HasOp("r2", "rollback", TRUE)
    /\ outcome["r2"] = "raised"
    /\ outcome["r1"] = "returned"
    /\ Len(RowsOfRun("r1")) = 2
    /\ RowsOfRun("r2") = <<>>

\* C15 witness of the interleaving: both transactions are open with one row
\* pending each
C15_WitnessBothOpen ==
    /\ ipc["r1"] = "loop" /\ ipc["r2"] = "loop"
    /\ Len(txn["r1"]) = 1 /\ Len(txn["r2"]) = 1

\* C15 witness of two commits: the rows of r2 precede those of r1 in the table
C15_WitnessBothCommit ==
    /\ InsertDone("r1") /\ InsertDone("r2")
    /\ Len(table) = 2
    /\ table[1].run = "r2"
    /\ table[2].run = "r1"

(***************************************************************************)
(* The fields of a record (checked under SpecItem).                        *)
(***************************************************************************)
Built == fpc = "built" /\ Len(books) = 1

SaleInfoOf(item) == IF "saleInfo" \in DOMAIN item THEN item.saleInfo ELSE EmptyDict

RetailOf(item) ==
    IF "retailPrice" \in DOMAIN SaleInfoOf(item)
    THEN SaleInfoOf(item).retailPrice ELSE EmptyDict

SaleabilityOf(item) ==
    IF "saleability" \in DOMAIN SaleInfoOf(item)
    THEN SaleInfoOf(item).saleability ELSE "NOT_FOR_SALE"

\* C16 as stated: the price is "<amount> <currencyCode>" only when the retail
\* price object carries both an amount and a currency code, and in every other
\* case it is the saleability, or "NOT_FOR_SALE" when there is none.
C16_Original ==
    Built =>
        LET retail == RetailOf(itemsSeen[1])
        IN  books[1].price =
                IF "amount" \in DOMAIN retail /\ "currencyCode" \in DOMAIN retail
                THEN retail.amount \o " " \o retail.currencyCode
                ELSE SaleabilityOf(itemsSeen[1])

\* C16 (amended): the price is "<amount> <currencyCode>" whenever the retail
\* price object holds anything, with "N/A" for a missing amount and nothing for
\* a missing currency code; it is the saleability, or "NOT_FOR_SALE" when there
\* is none, only when the retail price object is absent or empty; an item with
\* no retail price and saleability "FOR_SALE" yields "FOR_SALE".
C16_PriceDerivation ==
    Built =>
        LET retail == RetailOf(itemsSeen[1])
            amount == IF "amount" \in DOMAIN retail THEN retail.amount ELSE "N/A"
            code   == IF "currencyCode" \in DOMAIN retail THEN retail.currencyCode ELSE ""
        IN  /\ DOMAIN retail # {} => books[1].price = amount \o " " \o code
            /\ DOMAIN retail = {} => books[1].price = SaleabilityOf(itemsSeen[1])
            /\ (/\ "retailPrice" \notin DOMAIN SaleInfoOf(itemsSeen[1])
                /\ SaleabilityOf(itemsSeen[1]) = "FOR_SALE")
               => books[1].price = "FOR_SALE"

\* C16 witness: a retail price with an amount and no currency code, on an item
\* that is for sale: the price is the amount followed by a space
C16_Witness ==
    /\ Built
    /\ RetailOf(itemsSeen[1]) = [amount |-> "9.99"]
    /\ SaleabilityOf(itemsSeen[1]) = "FOR_SALE"
    /\ books[1].price = "9.99 "

\* C16 witness: a retail price with a currency code and no amount
C16_WitnessNoAmount ==
    /\ Built
    /\ RetailOf(itemsSeen[1]) = [currencyCode |-> "USD"]
    /\ books[1].price = "N/A USD"

\* C16 witness: no retail price, saleability FOR_SALE
C16_WitnessForSale ==
    /\ Built
    /\ SaleInfoOf(itemsSeen[1]) = [saleability |-> "FOR_SALE"]
    /\ books[1].price = "FOR_SALE"

(***************************************************************************)
(* The post-fetch pass (checked under SpecFetch).                          *)
(***************************************************************************)
\* The titles of a sequence of records are pairwise different
DistinctTitles(recs) ==
    \A i \in 1..Len(recs) : \A j \in 1..Len(recs) : recs[i].title = recs[j].title => i = j

\* C18: the list the loop collected never holds two records with the same
\* title, so the drop-duplicates pass removes nothing: what is handed off is the
\* truncated list, record for record.
C18_SecondPassRemovesNothing ==
    /\ DistinctTitles(books)
    /\ fpc = "done" =>
          /\ DistinctTitles(collected)
          /\ HandedOff
          /\ Out = SubSeq(collected, 1, Min(Len(collected), num_books))

\* C18 witness: two records handed off from pages that held a repeated title
C18_Witness ==
    /\ HandedOff
    /\ Len(Out) = 2
    /\ Out = collected
    /\ \E i \in 1..Len(itemsSeen) : \E j \in (i + 1)..Len(itemsSeen) :
          /\ Title(itemsSeen[i]) = Title(itemsSeen[j])
          /\ Title(itemsSeen[i]) # <<>>

(***************************************************************************)
(* Termination of the fetcher (checked under SpecFetchLive).               *)
(***************************************************************************)
\* C17: with answers of bounded totalItems the call makes a bounded number of
\* requests (at most MaxTotal), a request follows another only after a page with
\* offset + items < totalItems and has a strictly larger offset, and the call
\* eventually hands off, exactly once, also when no item is ever collected.
C17_FetchTerminates ==
    /\ [](requests <= MaxTotal)
    /\ [][(requests' = requests + 1 /\ requests >= 1) =>
            /\ last.kind = "page"
            /\ last.offset + last.nitems < last.total
            /\ last'.offset > last.offset]_vars
    /\ [][xcom' # xcom => (fpc = "after" /\ fpc' = "done" /\ ~xcom[FetchRun].has)]_vars
    /\ <>HandedOff

\* The same by a variant, without fairness (checked under SpecFetch): every step
\* of the call decreases a natural number, and a call that has not handed off
\* can take a step
Variant ==
    IF fpc = "loop" THEN 2 + MaxTotal - requests
    ELSE IF fpc = "after" THEN 1 ELSE 0

VariantDecreases == [][Variant' < Variant /\ Variant' >= 0]_vars

NeverStuck == fpc # "done" => ENABLED NextFetch

\* C17 witness: as many requests as totalItems allows, every item of every page
\* blank, nothing collected, and the handoff done
C17_Witness ==
    /\ HandedOff
    /\ requests = MaxTotal
    /\ Len(itemsSeen) = MaxTotal
    /\ collected = <<>>

\* C17 witness with repeated titles: three requests, one record
C17_WitnessDuplicates ==
    /\ HandedOff
    /\ requests = 3
    /\ Len(collected) = 1
    /\ \A i \in 1..Len(itemsSeen) : Title(itemsSeen[i]) = <<"A">>

(***************************************************************************)
(* The insert step under the scheduler's retry (checked under Spec).       *)
(***************************************************************************)
\* C19: when the insert task succeeded on its second attempt, the table holds
\* exactly one row of this run per record of the batch and none from the failed
\* first attempt; when the second attempt failed too, the table holds no row of
\* this run.
C19_RetryNoDuplicate ==
    /\ (tstate["insert"] = "success" /\ tries["insert"] = 2) =>
          RowsOfRun(FetchRun) = RowsFor(FetchRun)
    /\ tstate["insert"] = "failed" => RowsOfRun(FetchRun) = <<>>

\* The rows of the current attempt are in the table only once its commit has
\* succeeded: an attempt that fails before that leaves nothing
RowsOnlyAfterCommit ==
    RowsOfCall(FetchRun) # {} => HasOp(FetchRun, "commit", TRUE)

\* The first attempt left its row although it failed, and the second added its
\* own
RetryDuplicated ==
    /\ tstate["insert"] = "success"
    /\ tries["insert"] = 2
    /\ Len(RowsOfRun(FetchRun)) = 2
    /\ RowsOfRun(FetchRun)[1].attempt = 1
    /\ RowsOfRun(FetchRun)[2].attempt = 2
    /\ RowsOfRun(FetchRun)[1].title = RowsOfRun(FetchRun)[2].title

====
